---- MODULE Spec2Model ----
(***************************************************************************)
(* Model of the supply status monitor: main() of src/src/index.js and the  *)
(* DiscordNotifier of src/src/services/discord.js.                         *)
(*                                                                         *)
(* A cell value of the sheet is a JavaScript value: absent (null or        *)
(* undefined), a number, a string or a boolean.  Numbers are integers      *)
(* here; strings are sequences of one-character strings so that trimming,  *)
(* lowercasing, comma removal and parseFloat are computed as the code      *)
(* computes them.                                                          *)
(***************************************************************************)
EXTENDS Integers, Sequences, FiniteSets, TLC

VARIABLES
    config,     \* the loaded configuration: a sequence of sheet configurations
    sheet,      \* the spreadsheets: sheet id -> cell key -> raw value
    pc,         \* where main() is
    i,          \* the loop index of main (1-based)
    cur,        \* the locals of the current iteration of the loop
    processed,  \* the "Processing sheet" log lines: the entities begun, in order
    writes,     \* the updateCellValue calls issued, in order
    sent        \* the notifier calls issued, in order

vars == <<config, sheet, pc, i, cur, processed, writes, sent>>

(***************************************************************************)
(* Bounds of the model.                                                    *)
(***************************************************************************)
MaxEntities == 2
MaxSupplies == 17
MaxConsumption == 2
MaxDays == 6

(***************************************************************************)
(* JavaScript values.                                                      *)
(***************************************************************************)
Null == [t |-> "null"]
Num(n) == [t |-> "number", v |-> n]
Str(s) == [t |-> "string", v |-> s]
Bool(b) == [t |-> "boolean", v |-> b]

IsNullish(x) == x.t = "null"
\* x === ""
IsEmptyString(x) == x.t = "string" /\ x.v = <<>>

DigitChars == <<"0", "1", "2", "3", "4", "5", "6", "7", "8", "9">>
UpperChars == <<"A", "B", "C", "D", "E", "F", "G", "H", "I", "J", "K", "L", "M",
                "N", "O", "P", "Q", "R", "S", "T", "U", "V", "W", "X", "Y", "Z">>
LowerChars == <<"a", "b", "c", "d", "e", "f", "g", "h", "i", "j", "k", "l", "m",
                "n", "o", "p", "q", "r", "s", "t", "u", "v", "w", "x", "y", "z">>

IsDigit(c) == \E k \in 1..10 : DigitChars[k] = c
DigitVal(c) == (CHOOSE k \in 1..10 : DigitChars[k] = c) - 1

\* String.prototype.toLowerCase, one character
LowerChar(c) ==
    IF \E k \in 1..26 : UpperChars[k] = c
    THEN LowerChars[CHOOSE k \in 1..26 : UpperChars[k] = c]
    ELSE c
ToLowerCase(s) == [k \in 1..Len(s) |-> LowerChar(s[k])]

RECURSIVE TrimStart(_)
TrimStart(s) ==
    IF s # <<>> /\ Head(s) = " " THEN TrimStart(Tail(s)) ELSE s
RECURSIVE TrimEnd(_)
TrimEnd(s) ==
    IF s # <<>> /\ s[Len(s)] = " " THEN TrimEnd(SubSeq(s, 1, Len(s) - 1)) ELSE s
\* String.prototype.trim
Trim(s) == TrimEnd(TrimStart(s))

\* value.replace(/,/g, "")
RemoveCommas(s) == SelectSeq(s, LAMBDA c : c # ",")

RECURSIVE DigitPrefixLen(_)
DigitPrefixLen(s) ==
    IF s # <<>> /\ IsDigit(Head(s)) THEN 1 + DigitPrefixLen(Tail(s)) ELSE 0
RECURSIVE DigitsValue(_, _)
DigitsValue(s, acc) ==
    IF s = <<>> THEN acc ELSE DigitsValue(Tail(s), 10 * acc + DigitVal(Head(s)))

NaN == [nan |-> TRUE, v |-> 0]
\* parseFloat on strings of digits, signs, spaces, commas and letters: leading
\* white space is skipped, an optional sign and the longest digit prefix are
\* read, whatever follows is ignored; no digit gives NaN.
ParseFloat(s) ==
    LET t == TrimStart(s)
        signed == t # <<>> /\ Head(t) \in {"-", "+"}
        u == IF signed THEN Tail(t) ELSE t
        n == DigitPrefixLen(u)
        mag == DigitsValue(SubSeq(u, 1, n), 0)
    IN  IF n = 0 THEN NaN
        ELSE [nan |-> FALSE, v |-> IF signed /\ Head(t) = "-" THEN 0 - mag ELSE mag]

Max(a, b) == IF a >= b THEN a ELSE b

RECURSIVE NatChars(_)
NatChars(n) ==
    IF n < 10 THEN <<DigitChars[n + 1]>>
    ELSE Append(NatChars(n \div 10), DigitChars[(n % 10) + 1])
\* value + "": the string a value is converted to
JsString(x) ==
    IF x.t = "string" THEN x.v
    ELSE IF x.t = "number"
    THEN IF x.v < 0 THEN <<"-">> \o NatChars(0 - x.v) ELSE NatChars(x.v)
    ELSE IF x.t = "boolean"
    THEN IF x.v THEN <<"t", "r", "u", "e">> ELSE <<"f", "a", "l", "s", "e">>
    ELSE <<"n", "u", "l", "l">>

(***************************************************************************)
(* index.js: the helpers of main.                                          *)
(***************************************************************************)
NoError == [msg |-> "", arg |-> Null]
Threw(msg, arg) == [msg |-> msg, arg |-> arg]

\* mutant: the commas are not removed before the parse
parseNumericValue_KeepsCommas(value) ==
    IF value.t = "number" THEN [error |-> NoError, v |-> value.v]
    ELSE IF value.t # "string"
    THEN [error |-> Threw("Invalid value type: expected string or number", value), v |-> 0]
    ELSE LET parsed == ParseFloat(value.v)
         IN  IF parsed.nan
             THEN [error |-> Threw("Invalid numeric value", value), v |-> 0]
             ELSE [error |-> NoError, v |-> parsed.v]

\* parseNumericValue: a number is returned as it is, a string is parsed after
\* its commas are removed, anything else throws.
parseNumericValue(value) ==
    IF value.t = "number" THEN [error |-> NoError, v |-> value.v]
    ELSE IF value.t # "string"
    THEN [error |-> Threw("Invalid value type: expected string or number", value), v |-> 0]
    ELSE LET parsed == ParseFloat(RemoveCommas(value.v))
         IN  IF parsed.nan
             THEN [error |-> Threw("Invalid numeric value", value), v |-> 0]
             ELSE [error |-> NoError, v |-> parsed.v]

RestingWords == {<<"t", "r", "u", "e">>, <<"y", "e", "s">>, <<"y">>, <<"1">>}

\* mutant: a truthiness test for the values that are no boolean or string
isResting_Truthy(restingStatusRaw) ==
    IF IsNullish(restingStatusRaw) THEN FALSE
    ELSE IF restingStatusRaw.t = "boolean" THEN restingStatusRaw.v
    ELSE IF restingStatusRaw.t = "string"
    THEN ToLowerCase(Trim(restingStatusRaw.v)) \in RestingWords
    ELSE restingStatusRaw.v # 0

\* the isResting closure of main
isResting(restingStatusRaw) ==
    IF IsNullish(restingStatusRaw) THEN FALSE
    ELSE IF restingStatusRaw.t = "boolean" THEN restingStatusRaw.v
    ELSE IF restingStatusRaw.t = "string"
    THEN ToLowerCase(Trim(restingStatusRaw.v)) \in RestingWords
    ELSE FALSE

\* the optional metrics of main, in the order of optionalCellKeys
OptionalMetrics ==
    <<"ownedAndCarriedLoot", "paidAndCarriedLoot", "currentMorale",
      "restingMorale", "armyLength", "effectiveArmySize", "forcedMarchDays",
      "shippingStatus", "supplyShipsCount">>
\* the optional metrics main parses as numbers when they look like one
NumericMetrics ==
    {"ownedAndCarriedLoot", "paidAndCarriedLoot", "armyLength",
     "effectiveArmySize", "forcedMarchDays", "supplyShipsCount"}
NoOptional == [metric \in {OptionalMetrics[k] : k \in DOMAIN OptionalMetrics} |-> Null]

\* the parse of one optional raw value: a numeric metric that is present, not
\* the empty string and parses is handed to parseNumericValue, anything else
\* is passed on as it is
OptionalValue(metric, raw) ==
    IF /\ metric \in NumericMetrics
       /\ ~IsNullish(raw)
       /\ ~IsEmptyString(raw)
       /\ ~ParseFloat(RemoveCommas(JsString(raw))).nan
    THEN LET parsed == parseNumericValue(raw)
         IN  [error |-> parsed.error, v |-> Num(parsed.v)]
    ELSE [error |-> NoError, v |-> raw]

\* mutant: the consumption check lets zero through
ConsumptionError_AllowsZero(dailyConsumptionFloat) ==
    IF dailyConsumptionFloat < 0
    THEN Threw("Daily consumption must be greater than 0", Null)
    ELSE NoError

\* the check of the parsed daily consumption
ConsumptionError(dailyConsumptionFloat) ==
    IF dailyConsumptionFloat <= 0
    THEN Threw("Daily consumption must be greater than 0", Null)
    ELSE NoError

\* the validation of the four required cells, in the order of the code: the
\* absent cells first, then the four parses, then the consumption check
Validate(currentSupplies, dailyConsumption, totalCarriedRaw, carryingCapacityRaw) ==
    IF IsNullish(currentSupplies)
    THEN Threw("No data found in current supplies cell", Null)
    ELSE IF IsNullish(dailyConsumption)
    THEN Threw("No data found in daily consumption cell", Null)
    ELSE IF IsNullish(totalCarriedRaw)
    THEN Threw("No data found in total carried cell", Null)
    ELSE IF IsNullish(carryingCapacityRaw)
    THEN Threw("No data found in carrying capacity cell", Null)
    ELSE IF parseNumericValue(currentSupplies).error # NoError
    THEN parseNumericValue(currentSupplies).error
    ELSE IF parseNumericValue(dailyConsumption).error # NoError
    THEN parseNumericValue(dailyConsumption).error
    ELSE IF parseNumericValue(totalCarriedRaw).error # NoError
    THEN parseNumericValue(totalCarriedRaw).error
    ELSE IF parseNumericValue(carryingCapacityRaw).error # NoError
    THEN parseNumericValue(carryingCapacityRaw).error
    ELSE ConsumptionError(parseNumericValue(dailyConsumption).v)

\* mutant: the deduction is not floored at zero
newSupplyValue_NoFloor(resting, currentSuppliesFloat, dailyConsumptionFloat) ==
    IF resting THEN currentSuppliesFloat
    ELSE currentSuppliesFloat - dailyConsumptionFloat

\* mutant: the deduction is applied on resting days too
newSupplyValue_AlwaysDeducts(resting, currentSuppliesFloat, dailyConsumptionFloat) ==
    Max(0, currentSuppliesFloat - dailyConsumptionFloat)

newSupplyValue(resting, currentSuppliesFloat, dailyConsumptionFloat) ==
    IF resting THEN currentSuppliesFloat
    ELSE Max(0, currentSuppliesFloat - dailyConsumptionFloat)

suppliesWereZero(currentSuppliesFloat) == currentSuppliesFloat = 0

\* mutant: supplies already at zero count as hitting zero today
suppliesHitZero_AnyZero(resting, currentSuppliesFloat, new) ==
    ~resting /\ new = 0

suppliesHitZero(resting, currentSuppliesFloat, new) ==
    ~resting /\ currentSuppliesFloat > 0 /\ new = 0

\* mutant: the operands of the subtraction are swapped
suppliesConsumedToday_Swapped(resting, currentSuppliesFloat, new) ==
    IF resting THEN 0 ELSE Max(0, new - currentSuppliesFloat)

suppliesConsumedToday(resting, currentSuppliesFloat, new) ==
    IF resting THEN 0 ELSE Max(0, currentSuppliesFloat - new)

\* mutant: the adjusted total carried is not floored at zero
adjustedTotalCarried_NoFloor(totalCarried, consumedToday) ==
    totalCarried - consumedToday

\* mutant: the total carried is not adjusted for the day's consumption
adjustedTotalCarried_Raw(totalCarried, consumedToday) == totalCarried

adjustedTotalCarried(totalCarried, consumedToday) ==
    Max(0, totalCarried - consumedToday)

\* mutant: a total carried equal to the capacity counts as over capacity
overCapacity_AtEquality(carried, carryingCapacity) == carried >= carryingCapacity

\* the overCapacity argument of both notifier calls
overCapacity(carried, carryingCapacity) == carried > carryingCapacity

\* mutant: the sheet is updated when supplies were already zero
ShouldUpdate_AlsoAtZero(wereZero, resting) == ~resting

\* the condition of the sheet update
ShouldUpdate(wereZero, resting) == ~wereZero /\ ~resting

\* mutant: the zero supplies alert is raised only on the day supplies hit zero
ZeroVariant_OnlyHitZero(resting, wereZero, hitZero) == ~resting /\ hitZero

\* mutant: the zero supplies alert ignores the resting flag
ZeroVariant_IgnoresResting(resting, wereZero, hitZero) == wereZero \/ hitZero

\* the condition of the zero supplies alert
ZeroVariant(resting, wereZero, hitZero) == ~resting /\ (wereZero \/ hitZero)

\* mutant: the days remaining are rounded up
calculateDaysRemaining_RoundsUp(currentSupplies, dailyConsumption) ==
    IF dailyConsumption <= 0
    THEN [error |-> Threw("Daily consumption must be greater than 0", Null), v |-> 0]
    ELSE [error |-> NoError,
          v |-> (currentSupplies + dailyConsumption - 1) \div dailyConsumption]

\* calculateDaysRemaining of two numbers: it throws unless daily > 0, and
\* returns Math.floor(current / daily)
calculateDaysRemaining(currentSupplies, dailyConsumption) ==
    IF dailyConsumption <= 0
    THEN [error |-> Threw("Daily consumption must be greater than 0", Null), v |-> 0]
    ELSE [error |-> NoError, v |-> currentSupplies \div dailyConsumption]

(***************************************************************************)
(* services/discord.js: DiscordNotifier.                                   *)
(***************************************************************************)
DarkRed == 9109504     \* 0x8b0000
Red == 16711680        \* 0xff0000
Orange == 16747520     \* 0xff8c00
Yellow == 16776960     \* 0xffff00
Green == 65280         \* 0x00ff00

UrgentDays == 3
WarningDays == 7
CautionDays == 14

\* mutant: the thresholds are exclusive
getStatusColor_Strict(daysRemaining) ==
    IF daysRemaining = 0 THEN DarkRed
    ELSE IF daysRemaining < UrgentDays THEN Red
    ELSE IF daysRemaining < WarningDays THEN Orange
    ELSE IF daysRemaining < CautionDays THEN Yellow
    ELSE Green

\* mutant: no tier of its own for zero days remaining
getStatusColor_NoZeroTier(daysRemaining) ==
    IF daysRemaining <= UrgentDays THEN Red
    ELSE IF daysRemaining <= WarningDays THEN Orange
    ELSE IF daysRemaining <= CautionDays THEN Yellow
    ELSE Green

getStatusColor(daysRemaining) ==
    IF daysRemaining = 0 THEN DarkRed
    ELSE IF daysRemaining <= UrgentDays THEN Red
    ELSE IF daysRemaining <= WarningDays THEN Orange
    ELSE IF daysRemaining <= CautionDays THEN Yellow
    ELSE Green

getStatusEmoji(daysRemaining) ==
    IF daysRemaining = 0 THEN "rotating_light"
    ELSE IF daysRemaining <= UrgentDays THEN "rotating_light"
    ELSE IF daysRemaining <= WarningDays THEN "warning"
    ELSE IF daysRemaining <= CautionDays THEN "zap"
    ELSE "white_check_mark"

\* mutant: the warning stops a day early
StatusPreamble_WarnsLess(daysRemaining) ==
    IF daysRemaining <= UrgentDays THEN "URGENT"
    ELSE IF daysRemaining < WarningDays THEN "WARNING"
    ELSE ""

\* the urgency text payload.content of sendSupplyStatus starts with
StatusPreamble(daysRemaining) ==
    IF daysRemaining <= UrgentDays THEN "URGENT"
    ELSE IF daysRemaining <= WarningDays THEN "WARNING"
    ELSE ""

\* the label of each optional metric in the description of a notification
MetricLabel ==
    [ownedAndCarriedLoot |-> "Owned", paidAndCarriedLoot |-> "Paid",
     currentMorale |-> "Cur", restingMorale |-> "Rest", armyLength |-> "Len",
     effectiveArmySize |-> "Eff", forcedMarchDays |-> "Forced",
     shippingStatus |-> "Status", supplyShipsCount |-> "Ships"]

\* mutant: a truthiness test, which drops the number 0
MetricPresent_Truthy(value) ==
    /\ ~IsNullish(value)
    /\ ~IsEmptyString(value)
    /\ ~(value.t = "number" /\ value.v = 0)
    /\ ~(value.t = "boolean" /\ ~value.v)

\* the test a notifier makes before it pushes the token of an optional metric
MetricPresent(value) == ~IsNullish(value) /\ ~IsEmptyString(value)

\* the tokens of the optional metrics pushed to the lines of a description,
\* in the order of the code
RECURSIVE MetricTokens(_, _)
MetricTokens(p, metrics) ==
    IF metrics = <<>> THEN <<>>
    ELSE LET metric == Head(metrics)
         IN  (IF MetricPresent(p[metric])
              THEN <<[label |-> MetricLabel[metric], value |-> p[metric]]>>
              ELSE <<>>) \o MetricTokens(p, Tail(metrics))

\* the payload sendSupplyStatus hands to sendWebhook, for the object p of its
\* arguments
sendSupplyStatus(p) ==
    [kind |-> "SupplyStatus",
     entity |-> p.entity,
     name |-> p.name,
     restingSuffix |-> p.restingSuffix,
     currentSupplies |-> p.currentSupplies,
     dailyConsumption |-> p.dailyConsumption,
     daysRemaining |-> p.daysRemaining,
     totalCarried |-> p.totalCarried,
     carryingCapacity |-> p.carryingCapacity,
     color |-> getStatusColor(p.daysRemaining),
     emoji |-> getStatusEmoji(p.daysRemaining),
     preamble |-> StatusPreamble(p.daysRemaining),
     metrics |-> MetricTokens(p, OptionalMetrics),
     capacityAlertLine |-> p.overCapacity,
     overCapacityText |-> p.overCapacity]

\* mutant: the zero supplies alert has no capacity alert line
sendZeroSupplies_NoAlertLine(p) ==
    [kind |-> "ZeroSupplies",
     entity |-> p.entity,
     name |-> p.name,
     preamble |-> IF p.suppliesWereAlreadyZero THEN "STILL at ZERO"
                  ELSE "reached ZERO today",
     dailyConsumption |-> p.dailyConsumption,
     totalCarried |-> p.totalCarried,
     carryingCapacity |-> p.carryingCapacity,
     color |-> DarkRed,
     emoji |-> "rotating_light",
     metrics |-> MetricTokens(p, OptionalMetrics),
     capacityAlertLine |-> FALSE,
     overCapacityText |-> p.overCapacity]

\* the payload sendZeroSupplies hands to sendWebhook, for the object p of its
\* arguments
sendZeroSupplies(p) ==
    [kind |-> "ZeroSupplies",
     entity |-> p.entity,
     name |-> p.name,
     preamble |-> IF p.suppliesWereAlreadyZero THEN "STILL at ZERO"
                  ELSE "reached ZERO today",
     dailyConsumption |-> p.dailyConsumption,
     totalCarried |-> p.totalCarried,
     carryingCapacity |-> p.carryingCapacity,
     color |-> DarkRed,
     emoji |-> "rotating_light",
     metrics |-> MetricTokens(p, OptionalMetrics),
     capacityAlertLine |-> p.overCapacity,
     overCapacityText |-> p.overCapacity]

\* the payload sendError hands to sendWebhook
sendError(entity, sheetName, error) ==
    [kind |-> "Error",
     entity |-> entity,
     sheetName |-> sheetName,
     error |-> error.msg,
     color |-> Red]

(***************************************************************************)
(* index.js: main.                                                         *)
(***************************************************************************)
NoLocals ==
    [cellValues |-> [supplies |-> Null, consumption |-> Null, carried |-> Null,
                     capacity |-> Null, resting |-> Null, optional |-> NoOptional],
     validated |-> FALSE,
     isResting |-> FALSE,
     currentSuppliesFloat |-> 0,
     dailyConsumptionFloat |-> 0,
     totalCarried |-> 0,
     carryingCapacity |-> 0,
     newSupplyValue |-> 0,
     suppliesWereZero |-> FALSE,
     suppliesHitZero |-> FALSE,
     suppliesConsumedToday |-> 0,
     adjustedTotalCarried |-> 0,
     error |-> NoError]

\* what getCellValuesBatch returns for the cells main asks for: the resting
\* cell and each optional cell are fetched only when they are configured
CellValues(sheetConfig, row) ==
    [supplies |-> row.supplies,
     consumption |-> row.consumption,
     carried |-> row.carried,
     capacity |-> row.capacity,
     resting |-> IF sheetConfig.restingStatusCell THEN row.resting ELSE Null,
     optional |-> [metric \in DOMAIN NoOptional |->
                     IF metric \in sheetConfig.optionalCells
                     THEN row.optional[metric] ELSE Null]]

\* the locals of one iteration from the cell values to the log line before the
\* sheet update; a throw leaves the locals after it unset
Locals(cellValues) ==
    LET resting == isResting(cellValues.resting)
        error == Validate(cellValues.supplies, cellValues.consumption,
                          cellValues.carried, cellValues.capacity)
        current == parseNumericValue(cellValues.supplies).v
        daily == parseNumericValue(cellValues.consumption).v
        carried == parseNumericValue(cellValues.carried).v
        capacity == parseNumericValue(cellValues.capacity).v
        new == newSupplyValue(resting, current, daily)
        consumed == suppliesConsumedToday(resting, current, new)
    IN  IF error # NoError
        THEN [NoLocals EXCEPT !.cellValues = cellValues, !.isResting = resting,
                              !.error = error]
        ELSE [cellValues |-> cellValues,
              validated |-> TRUE,
              isResting |-> resting,
              currentSuppliesFloat |-> current,
              dailyConsumptionFloat |-> daily,
              totalCarried |-> carried,
              carryingCapacity |-> capacity,
              newSupplyValue |-> new,
              suppliesWereZero |-> suppliesWereZero(current),
              suppliesHitZero |-> suppliesHitZero(resting, current, new),
              suppliesConsumedToday |-> consumed,
              adjustedTotalCarried |-> adjustedTotalCarried(carried, consumed),
              error |-> NoError]

\* mutant: a validation error skips the error report
AfterLocals_SwallowsErrors(locals) ==
    IF locals.error # NoError THEN "sleep"
    ELSE IF ShouldUpdate(locals.suppliesWereZero, locals.isResting) THEN "update"
    ELSE "notify"

\* mutant: a validation error escapes the try of the iteration
AfterLocals_Fatal(locals) ==
    IF locals.error # NoError THEN "exit1"
    ELSE IF ShouldUpdate(locals.suppliesWereZero, locals.isResting) THEN "update"
    ELSE "notify"

\* where main goes after the locals are computed
AfterLocals(locals) ==
    IF locals.error # NoError THEN "catch"
    ELSE IF ShouldUpdate(locals.suppliesWereZero, locals.isResting) THEN "update"
    ELSE "notify"

\* the optional metrics main hands to the notifier
OptionalValues(cellValues) ==
    [metric \in DOMAIN NoOptional |->
        OptionalValue(metric, cellValues.optional[metric]).v]

\* the first error thrown by the parses of the optional metrics, if any
RECURSIVE OptionalError(_, _)
OptionalError(cellValues, metrics) ==
    IF metrics = <<>> THEN NoError
    ELSE LET error == OptionalValue(Head(metrics),
                                    cellValues.optional[Head(metrics)]).error
         IN  IF error # NoError THEN error
             ELSE OptionalError(cellValues, Tail(metrics))

\* the error thrown between the sheet update and the notifier call, if any:
\* a parse of an optional metric, or calculateDaysRemaining on the normal
\* branch
StatusError(locals) ==
    IF OptionalError(locals.cellValues, OptionalMetrics) # NoError
    THEN OptionalError(locals.cellValues, OptionalMetrics)
    ELSE IF ZeroVariant(locals.isResting, locals.suppliesWereZero, locals.suppliesHitZero)
    THEN NoError
    ELSE calculateDaysRemaining(locals.newSupplyValue,
                                locals.dailyConsumptionFloat).error

\* the notification main sends for the locals of entity k
StatusMessage(k, sheetConfig, locals) ==
    IF ZeroVariant(locals.isResting, locals.suppliesWereZero, locals.suppliesHitZero)
    THEN sendZeroSupplies(
            [entity |-> k,
             name |-> sheetConfig.name,
             suppliesWereAlreadyZero |-> locals.suppliesWereZero,
             dailyConsumption |-> locals.dailyConsumptionFloat,
             totalCarried |-> locals.adjustedTotalCarried,
             carryingCapacity |-> locals.carryingCapacity,
             overCapacity |-> overCapacity(locals.adjustedTotalCarried,
                                           locals.carryingCapacity)]
            @@ OptionalValues(locals.cellValues))
    ELSE sendSupplyStatus(
            [entity |-> k,
             name |-> sheetConfig.name,
             restingSuffix |-> locals.isResting,
             currentSupplies |-> locals.newSupplyValue,
             dailyConsumption |-> locals.dailyConsumptionFloat,
             daysRemaining |-> calculateDaysRemaining(
                                  locals.newSupplyValue,
                                  locals.dailyConsumptionFloat).v,
             totalCarried |-> locals.adjustedTotalCarried,
             carryingCapacity |-> locals.carryingCapacity,
             overCapacity |-> overCapacity(locals.adjustedTotalCarried,
                                           locals.carryingCapacity)]
            @@ OptionalValues(locals.cellValues))

\* loadConfig resolves: the loop starts (or ends at once on an empty list)
LoadConfig ==
    /\ pc = "start"
    /\ pc' = IF Len(config) >= 1 THEN "fetch" ELSE "done"
    /\ UNCHANGED <<config, sheet, i, cur, processed, writes, sent>>

\* loadConfig rejects: the outer catch logs and exits with status 1
LoadConfigFails ==
    /\ pc = "start"
    /\ pc' = "exit1"
    /\ UNCHANGED <<config, sheet, i, cur, processed, writes, sent>>

\* mutant: the cells of the first entity's sheet are read for every entity
GetCellValuesBatch_ReadsFirstSheet ==
    /\ pc = "fetch"
    /\ LET locals == Locals(CellValues(config[i], sheet[config[1].sheetId]))
       IN  /\ cur' = locals
           /\ pc' = AfterLocals(locals)
    /\ processed' = Append(processed, i)
    /\ UNCHANGED <<config, sheet, i, writes, sent>>

\* the cells are read, validated and the day's transition is computed
GetCellValuesBatch ==
    /\ pc = "fetch"
    /\ LET locals == Locals(CellValues(config[i], sheet[config[i].sheetId]))
       IN  /\ cur' = locals
           /\ pc' = AfterLocals(locals)
    /\ processed' = Append(processed, i)
    /\ UNCHANGED <<config, sheet, i, writes, sent>>

\* the read of the cells rejects
GetCellValuesBatchFails ==
    /\ pc = "fetch"
    /\ cur' = [NoLocals EXCEPT !.error = Threw("getCellValuesBatch failed", Null)]
    /\ pc' = "catch"
    /\ processed' = Append(processed, i)
    /\ UNCHANGED <<config, sheet, i, writes, sent>>

\* mutant: the update is issued for the daily consumption cell
UpdateCellValue_WritesConsumption ==
    /\ pc = "update"
    /\ sheet' = [sheet EXCEPT ![config[i].sheetId].consumption = Num(cur.newSupplyValue)]
    /\ writes' = Append(writes, [entity |-> i, sheetId |-> config[i].sheetId,
                                 cell |-> "consumption", value |-> cur.newSupplyValue,
                                 ok |-> TRUE])
    /\ pc' = "notify"
    /\ UNCHANGED <<config, i, cur, processed, sent>>

\* updateCellValue resolves: the supplies cell holds the new value
UpdateCellValue ==
    /\ pc = "update"
    /\ sheet' = [sheet EXCEPT ![config[i].sheetId].supplies = Num(cur.newSupplyValue)]
    /\ writes' = Append(writes, [entity |-> i, sheetId |-> config[i].sheetId,
                                 cell |-> "supplies", value |-> cur.newSupplyValue,
                                 ok |-> TRUE])
    /\ pc' = "notify"
    /\ UNCHANGED <<config, i, cur, processed, sent>>

\* mutant: a rejected update is ignored and the notification is sent
UpdateCellValueFails_Continues ==
    /\ pc = "update"
    /\ writes' = Append(writes, [entity |-> i, sheetId |-> config[i].sheetId,
                                 cell |-> "supplies", value |-> cur.newSupplyValue,
                                 ok |-> FALSE])
    /\ pc' = "notify"
    /\ UNCHANGED <<config, sheet, i, cur, processed, sent>>

\* updateCellValue rejects: the sheet keeps its value
UpdateCellValueFails ==
    /\ pc = "update"
    /\ writes' = Append(writes, [entity |-> i, sheetId |-> config[i].sheetId,
                                 cell |-> "supplies", value |-> cur.newSupplyValue,
                                 ok |-> FALSE])
    /\ cur' = [cur EXCEPT !.error = Threw("updateCellValue failed", Null)]
    /\ pc' = "catch"
    /\ UNCHANGED <<config, sheet, i, processed, sent>>

\* the status or zero supplies notification is composed and delivered (a
\* throw while composing it goes to the catch with nothing sent)
SendStatus ==
    /\ pc = "notify"
    /\ IF StatusError(cur) # NoError
       THEN /\ cur' = [cur EXCEPT !.error = StatusError(cur)]
            /\ pc' = "catch"
            /\ UNCHANGED sent
       ELSE /\ sent' = Append(sent, [m |-> StatusMessage(i, config[i], cur),
                                     ok |-> TRUE])
            /\ pc' = "sleep"
            /\ UNCHANGED cur
    /\ UNCHANGED <<config, sheet, i, processed, writes>>

\* sendWebhook rejects the status or zero supplies notification
SendStatusFails ==
    /\ pc = "notify"
    /\ StatusError(cur) = NoError
    /\ sent' = Append(sent, [m |-> StatusMessage(i, config[i], cur), ok |-> FALSE])
    /\ cur' = [cur EXCEPT !.error = Threw("Discord webhook failed", Null)]
    /\ pc' = "catch"
    /\ UNCHANGED <<config, sheet, i, processed, writes>>

\* mutant: a failure to send the error report ends main with a failure
AfterSendError_Escalates(ok) == IF ok THEN "sleep" ELSE "exit1"

\* where main goes after sendError, delivered or not
AfterSendError(ok) == "sleep"

\* the catch of the iteration: the error report is sent, a failure of it is
\* only logged
CatchSendError ==
    /\ pc = "catch"
    /\ \E ok \in BOOLEAN :
          /\ sent' = Append(sent, [m |-> sendError(i, config[i].name, cur.error),
                                   ok |-> ok])
          /\ pc' = AfterSendError(ok)
    /\ UNCHANGED <<config, sheet, i, cur, processed, writes>>

\* sleep(2000) and the loop's i++: the next entity, or completion
Sleep ==
    /\ pc = "sleep"
    /\ i' = i + 1
    /\ pc' = IF i < Len(config) THEN "fetch" ELSE "done"
    /\ cur' = NoLocals
    /\ UNCHANGED <<config, sheet, processed, writes, sent>>

(***************************************************************************)
(* The initial states: a configuration and the sheets it names.            *)
(***************************************************************************)
SuppliesCells ==
    {Null} \cup {Num(n) : n \in -1..MaxSupplies}
           \cup {Str(<<"1", ",", "0">>), Str(<<"a", "b", "c">>), Str(<<" ", "3", "x">>),
                 Str(<<"1", ",", "2", "3", "4">>)}
ConsumptionCells ==
    {Null} \cup {Num(n) : n \in -1..MaxConsumption}
           \cup {Str(<<"2">>), Str(<<"a", "b", "c">>)}
CarriedCells == {Null, Num(1), Num(5), Num(6), Str(<<"a", "b", "c">>)}
CapacityCells == {Null, Num(4), Bool(TRUE)}
RestingCells ==
    {Null, Bool(TRUE), Bool(FALSE), Str(<<"T", "R", "U", "E">>),
     Str(<<" ", "Y", " ">>), Str(<<"Y", "e", "s">>), Str(<<"1">>),
     Str(<<"n", "o">>), Str(<<"1", "0">>), Num(1)}

SheetConfig(k, hasResting) ==
    [name |-> <<"Army", k>>, sheetId |-> k, restingStatusCell |-> hasResting,
     optionalCells |-> {}]

\* rows with every supplies and resting value and valid other cells, and the
\* supplies of 150 and the consumption of 5 of the documented examples
SupplyRows(hasResting) ==
    [supplies : SuppliesCells \cup {Num(150)},
     consumption : {Num(n) : n \in 1..MaxConsumption} \cup {Num(5), Str(<<"2">>)},
     carried : {Num(5), Num(6)},
     capacity : {Num(4)},
     resting : IF hasResting THEN RestingCells ELSE {Null},
     optional : {NoOptional}]

\* rows with every consumption, carried and capacity value and a few supplies
InputRows(hasResting) ==
    [supplies : {Null, Num(0), Num(1), Num(3), Str(<<"a", "b", "c">>)},
     consumption : ConsumptionCells,
     carried : CarriedCells,
     capacity : CapacityCells,
     resting : IF hasResting THEN {Null, Bool(TRUE)} ELSE {Null},
     optional : {NoOptional}]

\* one entity, every kind of cell value
InitOne ==
    \E hasResting \in BOOLEAN :
       /\ config = <<SheetConfig(1, hasResting)>>
       /\ sheet \in [{1} -> SupplyRows(hasResting) \cup InputRows(hasResting)]

\* the values of an optional cell
OptionalCells ==
    {Null, Str(<<>>), Num(0), Num(7), Str(<<"1", ",", "0">>),
     Str(<<"a", "b", "c">>), Str(<<" ">>), Bool(FALSE)}

\* one entity with valid required cells: no optional cell, one of them or all
\* of them configured, the configured ones holding one value and the others
\* a number
InitMetrics ==
    \E cells \in {{}, DOMAIN NoOptional} \cup {{metric} : metric \in DOMAIN NoOptional} :
       \E value \in OptionalCells :
          /\ config = <<[SheetConfig(1, FALSE) EXCEPT !.optionalCells = cells]>>
          /\ sheet \in [{1} ->
                [supplies : {Num(0), Num(3)},
                 consumption : {Num(2)},
                 carried : {Num(5)},
                 capacity : {Num(4)},
                 resting : {Null},
                 optional : {[metric \in DOMAIN NoOptional |->
                                IF metric \in cells THEN value ELSE Num(7)]}]]

\* the rows of a run over several entities: a few cell values each
BatchRows ==
    [supplies : {Null, Num(0), Num(3)},
     consumption : {Num(2)},
     carried : {Num(5)},
     capacity : {Num(4)},
     resting : {Null, Bool(TRUE)},
     optional : {NoOptional}]

\* several entities, each with a sheet of its own
InitMany ==
    \E n \in 0..MaxEntities :
       /\ config \in [1..n -> {SheetConfig(k, h) : k \in 1..n, h \in BOOLEAN}]
       /\ \A k \in 1..n : config[k].sheetId = k
       /\ sheet \in [1..n -> BatchRows]
       /\ \A k \in 1..n : ~config[k].restingStatusCell => sheet[k].resting = Null

\* main has not begun
AtStart ==
    /\ pc = "start"
    /\ i = 1
    /\ cur = NoLocals
    /\ processed = <<>>
    /\ writes = <<>>
    /\ sent = <<>>

Init == (InitOne \/ InitMetrics \/ InitMany) /\ AtStart

Next ==
    \/ LoadConfig
    \/ LoadConfigFails
    \/ GetCellValuesBatch
    \/ GetCellValuesBatchFails
    \/ UpdateCellValue
    \/ UpdateCellValueFails
    \/ SendStatus
    \/ SendStatusFails
    \/ CatchSendError
    \/ Sleep

Spec == Init /\ [][Next]_vars

\* every await of main settles: the reads, the update and the webhook calls
\* resolve or reject, and the sleeps end
InitBatch ==
    /\ \E n \in 0..MaxEntities :
          /\ config \in [1..n -> {SheetConfig(k, h) : k \in 1..n, h \in BOOLEAN}]
          /\ \A k \in 1..n : config[k].sheetId = k
          /\ sheet \in [1..n -> BatchRows]
          /\ \A k \in 1..n : ~config[k].restingStatusCell => sheet[k].resting = Null
    /\ pc = "start"
    /\ i = 1
    /\ cur = NoLocals
    /\ processed = <<>>
    /\ writes = <<>>
    /\ sent = <<>>

FairSpec == InitBatch /\ [][Next]_vars /\ WF_vars(Next)

(***************************************************************************)
(* Successive invocations of main on one entity, the sheet persisting from *)
(* one to the next and every external call succeeding.  The logs span the  *)
(* invocations: one entry of processed for each.                           *)
(***************************************************************************)
\* main is run again: a new process, with the sheet as the last one left it
NextInvocation ==
    /\ pc = "done"
    /\ Len(processed) < MaxDays
    /\ pc' = "start"
    /\ i' = 1
    /\ cur' = NoLocals
    /\ UNCHANGED <<config, sheet, processed, writes, sent>>

\* one entity without a resting cell, with supplies above zero
DaysInit ==
    /\ config = <<SheetConfig(1, FALSE)>>
    /\ sheet \in [{1} ->
          [supplies : {Num(n) : n \in 1..(MaxDays - 2)},
           consumption : {Num(1), Num(2), Num(3), Str(<<"2">>)},
           carried : {Num(5), Num(6)},
           capacity : {Num(4)},
           resting : {Null},
           optional : {NoOptional}]]
    /\ pc = "start"
    /\ i = 1
    /\ cur = NoLocals
    /\ processed = <<>>
    /\ writes = <<>>
    /\ sent = <<>>

DaysNext ==
    \/ LoadConfig
    \/ GetCellValuesBatch
    \/ UpdateCellValue
    \/ SendStatus
    \/ Sleep
    \/ NextInvocation

DaysSpec == DaysInit /\ [][DaysNext]_vars /\ WF_vars(DaysNext)

(***************************************************************************)
(* The notifier calls and sheet updates of the entity main is at.          *)
(***************************************************************************)
StatusKinds == {"SupplyStatus", "ZeroSupplies"}
StatusOf(k) == {n \in DOMAIN sent : sent[n].m.entity = k /\ sent[n].m.kind \in StatusKinds}
ErrorsOf(k) == {n \in DOMAIN sent : sent[n].m.entity = k /\ sent[n].m.kind = "Error"}
WritesOf(k) == {n \in DOMAIN writes : writes[n].entity = k}

C2_Deduction ==
    (cur.validated /\ ~cur.isResting /\ cur.currentSuppliesFloat >= 0) =>
        /\ cur.dailyConsumptionFloat > 0
        /\ cur.currentSuppliesFloat >= cur.dailyConsumptionFloat =>
              cur.newSupplyValue = cur.currentSuppliesFloat - cur.dailyConsumptionFloat
        /\ cur.currentSuppliesFloat < cur.dailyConsumptionFloat =>
              cur.newSupplyValue = 0
        /\ cur.newSupplyValue >= 0

\* the deduction was clamped at zero: 0 < previousSupplies < dailyConsumption
C2_Witness ==
    /\ cur.validated /\ ~cur.isResting
    /\ cur.currentSuppliesFloat > 0
    /\ cur.currentSuppliesFloat < cur.dailyConsumptionFloat
    /\ cur.newSupplyValue = 0

\* C3: the supplies cell of the entity is written (updateCellValue is called
\* for it) if and only if validation passed, the entity is not resting and
\* its stored supplies were not zero; the value written is newSupplies, the
\* cell then holds it, and without a successful write the cell is unchanged.
C3_WriteDecision ==
    /\ \A n \in WritesOf(i) :
          /\ cur.validated /\ ~cur.isResting /\ cur.currentSuppliesFloat # 0
          /\ writes[n].value = cur.newSupplyValue
          /\ writes[n].cell = "supplies"
          /\ writes[n].sheetId = config[i].sheetId
    /\ (cur.validated /\ ~cur.isResting /\ cur.currentSuppliesFloat # 0
          /\ pc # "update") => Cardinality(WritesOf(i)) = 1
    /\ cur.validated =>
          sheet[config[i].sheetId].supplies =
             IF \E n \in WritesOf(i) : writes[n].ok
             THEN Num(cur.newSupplyValue)
             ELSE cur.cellValues.supplies

\* a write of newSupplies went through, and the cell holds it
C3_Witness ==
    /\ pc = "sleep" /\ cur.validated
    /\ \E n \in WritesOf(i) : writes[n].ok /\ writes[n].value = cur.newSupplyValue
    /\ sheet[config[i].sheetId].supplies = Num(cur.newSupplyValue)
    /\ cur.newSupplyValue # cur.currentSuppliesFloat

\* C4: when resting, for any valid previousSupplies and dailyConsumption,
\* newSupplies is previousSupplies, consumedToday is 0 and hitZeroToday is
\* false, also when previousSupplies is 0.
C4_Resting ==
    (cur.validated /\ cur.isResting) =>
        /\ cur.newSupplyValue = cur.currentSuppliesFloat
        /\ cur.suppliesConsumedToday = 0
        /\ ~cur.suppliesHitZero

\* a resting entity whose supplies are zero went through its pipeline
C4_Witness ==
    /\ cur.validated /\ cur.isResting
    /\ cur.currentSuppliesFloat = 0 /\ cur.dailyConsumptionFloat > 0
    /\ pc = "sleep"

\* C5: hitZeroToday is true if and only if previousSupplies > 0 and
\* newSupplies = 0 and the entity is not resting.
C5_HitZero ==
    cur.validated =>
        (cur.suppliesHitZero <=>
            (cur.currentSuppliesFloat > 0 /\ cur.newSupplyValue = 0 /\ ~cur.isResting))

\* supplies hit zero today, and the zero supplies alert says so
C5_Witness ==
    /\ cur.validated /\ cur.suppliesHitZero
    /\ cur.currentSuppliesFloat > 0 /\ cur.newSupplyValue = 0
    /\ \E n \in StatusOf(i) : sent[n].m.kind = "ZeroSupplies"
                              /\ sent[n].m.preamble = "reached ZERO today"

\* C6: the entities are begun one at a time in configuration order, each
\* once; main exits with a failure only before the loop; and once the
\* configuration is loaded main reaches completion with every entity
\* processed, whatever failed on the way.
C6_EveryEntityProcessed ==
    /\ [](\A k \in DOMAIN processed : processed[k] = k)
    /\ [](pc = "done" => processed = [k \in 1..Len(config) |-> k])
    /\ [](pc = "exit1" => processed = <<>>)
    /\ []((pc \notin {"start", "exit1"}) => <>(pc = "done"))

\* main completed after the first entity's pipeline and its error report
\* both failed, and the second entity got its notification
C6_Witness ==
    /\ pc = "done" /\ Len(config) >= 2
    /\ \E n \in ErrorsOf(1) : ~sent[n].ok
    /\ \E n \in StatusOf(2) : sent[n].ok
    /\ processed = [k \in 1..Len(config) |-> k]

\* C7: an ErrorReport with the entity's name and the error text is attempted
\* for an entity if and only if its pipeline failed; a failure to send it is
\* not escalated: main goes on to the sleep and never exits with a failure
\* once the loop has begun.
C7_ErrorReport ==
    /\ \A n \in ErrorsOf(i) :
          /\ cur.error # NoError
          /\ sent[n].m.sheetName = config[i].name
          /\ sent[n].m.error = cur.error.msg
          /\ pc = "sleep"
    /\ Cardinality(ErrorsOf(i)) <= 1
    /\ pc = "sleep" => (cur.error # NoError <=> ErrorsOf(i) # {})
    /\ pc = "exit1" => (sent = <<>> /\ processed = <<>>)

\* the error report of a failed pipeline could not be sent, and main is at
\* the sleep before the next entity
C7_Witness ==
    /\ pc = "sleep" /\ cur.error # NoError /\ i < Len(config)
    /\ \E n \in ErrorsOf(i) : ~sent[n].ok

RequiredCells == {"supplies", "consumption", "carried", "capacity"}

\* a value the code does not take for a number
NotANumber(x) ==
    \/ x.t \notin {"number", "string"}
    \/ x.t = "string" /\ ParseFloat(RemoveCommas(x.v)).nan

\* a required cell is absent or no number, or the daily consumption is <= 0
InvalidInput(cellValues) ==
    \/ \E c \in RequiredCells : IsNullish(cellValues[c]) \/ NotANumber(cellValues[c])
    \/ parseNumericValue(cellValues.consumption).v <= 0

\* C8: while the cells of the entity main is at hold an absent or non-numeric
\* required value or a daily consumption <= 0, no step changes the sheet,
\* issues a sheet write for the entity or sends it a SupplyStatus or
\* ZeroSupplies notification.
C8_ValidationAborts ==
    [][(i \in DOMAIN config
          /\ InvalidInput(CellValues(config[i], sheet[config[i].sheetId])))
       => /\ sheet' = sheet
          /\ writes' = writes
          /\ \A n \in DOMAIN writes' : writes'[n].entity # i
          /\ \A n \in DOMAIN sent' :
                sent'[n].m.entity = i => sent'[n].m.kind = "Error"]_vars

\* an entity with a daily consumption <= 0 ended with an error report only
C8_Witness ==
    /\ pc = "sleep"
    /\ InvalidInput(cur.cellValues)
    /\ cur.error.msg = "Daily consumption must be greater than 0"
    /\ ErrorsOf(i) # {} /\ StatusOf(i) = {} /\ WritesOf(i) = {}
    /\ sheet[config[i].sheetId].supplies = cur.cellValues.supplies

\* the severity table: a tier's days remaining (hi = -1: no upper end), colour
\* and emoji
TierTable ==
    {[tier |-> "Critical-Zero", lo |-> 0, hi |-> 0, color |-> DarkRed,
      emoji |-> "rotating_light"],
     [tier |-> "Red", lo |-> 1, hi |-> 3, color |-> Red, emoji |-> "rotating_light"],
     [tier |-> "Orange", lo |-> 4, hi |-> 7, color |-> Orange, emoji |-> "warning"],
     [tier |-> "Yellow", lo |-> 8, hi |-> 14, color |-> Yellow, emoji |-> "zap"],
     [tier |-> "Green", lo |-> 15, hi |-> -1, color |-> Green,
      emoji |-> "white_check_mark"]}
TiersOf(d) == {t \in TierTable : d >= t.lo /\ (t.hi = -1 \/ d <= t.hi)}

\* C9: every SupplyStatus message with daysRemaining >= 0 falls in exactly one
\* tier of the table, and carries that tier's colour and emoji.
C9_TierTable ==
    \A n \in DOMAIN sent :
       (sent[n].m.kind = "SupplyStatus" /\ sent[n].m.daysRemaining >= 0) =>
           /\ Cardinality(TiersOf(sent[n].m.daysRemaining)) = 1
           /\ \A t \in TiersOf(sent[n].m.daysRemaining) :
                 sent[n].m.color = t.color /\ sent[n].m.emoji = t.emoji

\* a message at the boundary of the last tier: 15 days remaining, green
C9_Witness ==
    \E n \in DOMAIN sent :
       /\ sent[n].m.kind = "SupplyStatus"
       /\ sent[n].m.daysRemaining = 15
       /\ sent[n].m.color = Green /\ sent[n].m.emoji = "white_check_mark"

\* C10 as stated: dark red only when daysRemaining = 0 and the entity is not
\* resting; a resting entity with daysRemaining = 0 is classified Red.
C10_Original ==
    \A n \in StatusOf(i) :
       sent[n].m.kind = "SupplyStatus" =>
           /\ sent[n].m.color = DarkRed =>
                 (sent[n].m.daysRemaining = 0 /\ ~cur.isResting)
           /\ (cur.isResting /\ sent[n].m.daysRemaining = 0) => sent[n].m.color = Red

\* C10 amended: a SupplyStatus message is dark red exactly when its
\* daysRemaining is 0, resting or not: a resting entity with daysRemaining = 0
\* is dark red, with the (Resting) suffix in its name.
C10_ZeroIsDarkRed ==
    \A n \in StatusOf(i) :
       sent[n].m.kind = "SupplyStatus" =>
           /\ sent[n].m.color = DarkRed <=> sent[n].m.daysRemaining = 0
           /\ sent[n].m.restingSuffix = cur.isResting
           /\ (cur.isResting /\ sent[n].m.daysRemaining = 0) =>
                 sent[n].m.color = DarkRed

\* a resting entity with 0 days remaining was sent a dark red SupplyStatus
C10_Witness ==
    \E n \in StatusOf(i) :
       /\ cur.isResting
       /\ sent[n].m.kind = "SupplyStatus" /\ sent[n].m.restingSuffix
       /\ sent[n].m.daysRemaining = 0
       /\ sent[n].m.color = DarkRed

C13_Original ==
    \A n \in StatusOf(i) :
       cur.isResting =>
          (sent[n].m.kind = "ZeroSupplies" <=> cur.currentSuppliesFloat = 0)

\* C14 as stated: for every entity that passed validation, resting or not,
\* the supplies reported in its notification and the adjusted total carried
\* are both at least 0.
C14_Original ==
    \A n \in StatusOf(i) :
       /\ sent[n].m.totalCarried >= 0
       /\ sent[n].m.kind = "SupplyStatus" => sent[n].m.currentSupplies >= 0

\* C14 amended: the adjusted total carried of a notification is at least 0,
\* and the supplies reported are at least 0 for an entity that is not resting
\* or whose stored supplies are not negative; a resting entity with negative
\* stored supplies is reported with that negative value.
C14_NonNegative ==
    \A n \in StatusOf(i) :
       /\ sent[n].m.totalCarried >= 0
       /\ sent[n].m.kind = "SupplyStatus" =>
             /\ (~cur.isResting \/ cur.currentSuppliesFloat >= 0) =>
                   sent[n].m.currentSupplies >= 0
             /\ (cur.isResting /\ cur.currentSuppliesFloat < 0) =>
                   sent[n].m.currentSupplies = cur.currentSuppliesFloat

\* a resting entity with stored supplies of -1 was reported with -1
C14_Witness ==
    \E n \in StatusOf(i) :
       /\ cur.validated /\ cur.isResting
       /\ cur.currentSuppliesFloat = -1
       /\ sent[n].m.kind = "SupplyStatus"
       /\ sent[n].m.currentSupplies = -1
       /\ sent[n].m.totalCarried >= 0

C16_DaysRemaining ==
    \A n \in StatusOf(i) :
       sent[n].m.kind = "SupplyStatus" =>
          LET m == sent[n].m
              d == cur.dailyConsumptionFloat
          IN  /\ m.currentSupplies = cur.newSupplyValue
              /\ m.daysRemaining * d <= cur.newSupplyValue
              /\ cur.newSupplyValue < (m.daysRemaining + 1) * d
              /\ (~cur.isResting /\ cur.currentSuppliesFloat = 150 /\ d = 5) =>
                    (m.currentSupplies = 145 /\ m.daysRemaining = 29
                     /\ m.color = Green)
              /\ (~cur.isResting /\ cur.currentSuppliesFloat = 10 /\ d = 5) =>
                    (m.currentSupplies = 5 /\ m.daysRemaining = 1
                     /\ m.color = Red)

\* 150 supplies at 5 a day: the sheet was set to 145 and the status says 29
\* days, Green
C16_Witness ==
    \E n \in StatusOf(i) :
       /\ ~cur.isResting /\ cur.currentSuppliesFloat = 150
       /\ cur.dailyConsumptionFloat = 5
       /\ sheet[config[i].sheetId].supplies = Num(145)
       /\ sent[n].m.kind = "SupplyStatus"
       /\ sent[n].m.daysRemaining = 29 /\ sent[n].m.color = Green

\* the optional cell of a metric as the entity main is at reads it: absent
\* when the cell is not configured
OptionalCellOf(metric) ==
    IF metric \in config[i].optionalCells
    THEN sheet[config[i].sheetId].optional[metric]
    ELSE Null

\* C17: in the SupplyStatus and the ZeroSupplies message alike, each of the
\* nine optional metrics has its token in the description if and only if its
\* cell is configured and its value is neither absent nor the empty string (a
\* numeric 0 is present); an unconfigured or empty cell leaves no token and
\* no placeholder, and never makes the pipeline of a validated entity fail.
C17_OptionalMetrics ==
    /\ \A n \in StatusOf(i) :
          LET m == sent[n].m
              shown(metric) ==
                 /\ OptionalCellOf(metric).t # "null"
                 /\ ~(OptionalCellOf(metric).t = "string"
                      /\ OptionalCellOf(metric).v = <<>>)
          IN  /\ \A metric \in DOMAIN NoOptional :
                    (\E k \in DOMAIN m.metrics :
                        m.metrics[k].label = MetricLabel[metric]) <=> shown(metric)
              /\ Len(m.metrics) = Cardinality({metric \in DOMAIN NoOptional : shown(metric)})
              /\ \A k \in DOMAIN m.metrics :
                    /\ m.metrics[k].value.t # "null"
                    /\ ~(m.metrics[k].value.t = "string" /\ m.metrics[k].value.v = <<>>)
              /\ \A metric \in DOMAIN NoOptional :
                    (OptionalCellOf(metric).t = "number" /\ OptionalCellOf(metric).v = 0) =>
                       \E k \in DOMAIN m.metrics :
                          m.metrics[k] = [label |-> MetricLabel[metric], value |-> Num(0)]
    /\ (pc = "catch" /\ cur.validated) =>
          cur.error.msg \in {"updateCellValue failed", "Discord webhook failed"}

\* an entity with only the army length cell configured, holding 0: its
\* ZeroSupplies alert has the one token Len 0, and nothing for the other
\* metrics
C17_Witness ==
    \E n \in StatusOf(i) :
       /\ config[i].optionalCells = {"armyLength"}
       /\ sheet[config[i].sheetId].optional["armyLength"] = Num(0)
       /\ sheet[config[i].sheetId].optional["currentMorale"] = Num(7)
       /\ sent[n].m.kind = "ZeroSupplies"
       /\ sent[n].m.metrics = <<[label |-> "Len", value |-> Num(0)]>>

\* C18: the capacity alert line is in the description of a notification if
\* and only if the overCapacity flag main computed for it is true, in the
\* SupplyStatus and in the ZeroSupplies variant; a notification never has
\* the line without the flag, nor the flag without the line.
C18_CapacityAlertLine ==
    \A n \in StatusOf(i) :
       LET flag == cur.adjustedTotalCarried > cur.carryingCapacity
       IN  /\ sent[n].m.kind \in {"SupplyStatus", "ZeroSupplies"}
           /\ flag => sent[n].m.capacityAlertLine
           /\ ~flag => ~sent[n].m.capacityAlertLine

\* a ZeroSupplies alert with the capacity alert line: 6 carried, nothing
\* consumed, capacity 4
C18_Witness ==
    \E n \in StatusOf(i) :
       /\ cur.adjustedTotalCarried = 6 /\ cur.carryingCapacity = 4
       /\ sent[n].m.kind = "ZeroSupplies"
       /\ sent[n].m.capacityAlertLine

\* C20: the resting evaluator never fails: an absent resting value is not
\* resting, a boolean is itself, a string is resting if and only if, trimmed
\* and lowercased, it is "true", "yes", "y" or "1", and any other value (any
\* other string, the number 1) is not resting; whatever the resting cell
\* holds, an entity with valid required cells passes validation.
C20_RestingEvaluator ==
    LET raw == cur.cellValues.resting
    IN  /\ cur.isResting \in BOOLEAN
        /\ raw.t = "null" => ~cur.isResting
        /\ raw.t = "boolean" => cur.isResting = raw.v
        /\ raw.t = "string" =>
              (cur.isResting <=>
                  ToLowerCase(Trim(raw.v)) \in
                     {<<"t", "r", "u", "e">>, <<"y", "e", "s">>, <<"y">>, <<"1">>})
        /\ raw.t \notin {"null", "boolean", "string"} => ~cur.isResting
        /\ ~InvalidInput(cur.cellValues) => cur.validated

\* the number 1 in the resting cell: not resting, the supplies were deducted
\* and the status has no (Resting) suffix
C20_Witness ==
    \E n \in StatusOf(i) :
       /\ cur.cellValues.resting = Num(1)
       /\ ~cur.isResting /\ cur.validated
       /\ cur.newSupplyValue < cur.currentSuppliesFloat
       /\ sent[n].m.kind = "SupplyStatus" /\ ~sent[n].m.restingSuffix

\* the notifier calls and the sheet updates issued for entity k, in order
SentFor(k) == SelectSeq(sent, LAMBDA e : e.m.entity = k)
WritesFor(k) == SelectSeq(writes, LAMBDA w : w.entity = k)

\* the row of the entity main is at as it was read: its supplies cell is
\* the only cell main writes
OwnRow == [sheet[config[i].sheetId] EXCEPT !.supplies = cur.cellValues.supplies]

\* what main has computed, written and sent for the entity it is at is a
\* function of that entity's configuration and row alone, and nothing is
\* left of an iteration when the next one starts
OwnInputsOnly ==
    /\ pc \in {"start", "fetch", "done", "exit1"} => cur = NoLocals
    /\ (pc \in {"update", "notify", "catch", "sleep"}
        /\ cur.error.msg # "getCellValuesBatch failed") =>
          LET own == Locals(CellValues(config[i], OwnRow))
          IN  /\ [cur EXCEPT !.error = NoError] = [own EXCEPT !.error = NoError]
              /\ cur.error.msg \in {own.error.msg, "updateCellValue failed",
                                     "Discord webhook failed"}
              /\ \A n \in StatusOf(i) :
                    sent[n].m = StatusMessage(i, config[i], own)
              /\ \A n \in WritesOf(i) :
                    /\ writes[n].sheetId = config[i].sheetId
                    /\ writes[n].value = own.newSupplyValue
    /\ \A k \in DOMAIN config :
          k > i => (SentFor(k) = <<>> /\ WritesFor(k) = <<>>)

\* a step of main leaves the rows, the sheet updates and the notifications
\* of every entity other than the one it is at as they were
OthersUntouched ==
    \A k \in DOMAIN config :
       k # i =>
          /\ sheet'[config[k].sheetId] = sheet[config[k].sheetId]
          /\ SentFor(k)' = SentFor(k)
          /\ WritesFor(k)' = WritesFor(k)

\* C19: entities do not interact: the write decision, the written value and
\* the notification of an entity depend only on its own configuration and
\* cell values, whatever the cells, results or failures of the entities
\* before or after it; the steps of one entity's pipeline change nothing of
\* another entity, and no local is carried from one pipeline to the next.
C19_NoInteraction == []OwnInputsOnly /\ [][OthersUntouched]_vars

\* the second of two entities had its sheet updated and its status sent
\* after the first one failed, whose row is as it was
C19_Witness ==
    /\ Len(config) = 2 /\ i = 2
    /\ ErrorsOf(1) # {}
    /\ StatusOf(1) = {}
    /\ \E n \in WritesOf(2) : writes[n].ok
    /\ StatusOf(2) # {}

\* C21: parseNumericValue returns a number as it is, parses a string after
\* removing every comma ("1,234" gives 1234), and fails with the invalid
\* numeric value error that carries the string when the string has no
\* number to parse ("abc"); a value it returned is returned unchanged when
\* handed to it again.
C21_Normalizer ==
    LET raw == cur.cellValues.supplies
        present == \A c \in RequiredCells : ~IsNullish(cur.cellValues[c])
    IN  /\ (cur.validated /\ raw.t = "number") => cur.currentSuppliesFloat = raw.v
        /\ (cur.validated /\ raw = Str(<<"1", ",", "2", "3", "4">>)) =>
              cur.currentSuppliesFloat = 1234
        /\ (cur.validated /\ raw = Str(<<"1", ",", "0">>)) => cur.currentSuppliesFloat = 10
        /\ (present /\ raw.t = "string" /\ \A k \in DOMAIN raw.v : ~IsDigit(raw.v[k])) =>
              /\ ~cur.validated
              /\ cur.error = [msg |-> "Invalid numeric value", arg |-> raw]
        /\ cur.validated =>
              /\ parseNumericValue(Num(cur.currentSuppliesFloat)) =
                    [error |-> NoError, v |-> cur.currentSuppliesFloat]
              /\ parseNumericValue(Num(cur.totalCarried)) =
                    [error |-> NoError, v |-> cur.totalCarried]

\* the supplies cell held "1,234": it was read as 1234 and the sheet was
\* updated to 1234 less the daily consumption
C21_Witness ==
    \E n \in WritesOf(i) :
       /\ cur.cellValues.supplies = Str(<<"1", ",", "2", "3", "4">>)
       /\ cur.validated /\ cur.currentSuppliesFloat = 1234
       /\ writes[n].ok
       /\ writes[n].value = 1234 - cur.dailyConsumptionFloat

\* C22: in a SupplyStatus notification the urgency text is the URGENT one
\* for 1 to 3 days remaining, the WARNING one for 4 to 7 days remaining and
\* absent for 8 days or more, and the over capacity text is appended to it
\* whenever the over capacity flag is true.
C22_Preamble ==
    \A n \in StatusOf(i) :
       sent[n].m.kind = "SupplyStatus" =>
          LET m == sent[n].m
          IN  /\ m.daysRemaining \in 1..3 => m.preamble = "URGENT"
              /\ m.daysRemaining \in 4..7 => m.preamble = "WARNING"
              /\ m.daysRemaining >= 8 => m.preamble = ""
              /\ cur.adjustedTotalCarried > cur.carryingCapacity => m.overCapacityText

\* 7 days remaining and over capacity: the WARNING text with the over
\* capacity text
C22_Witness ==
    \E n \in StatusOf(i) :
       /\ sent[n].m.kind = "SupplyStatus"
       /\ sent[n].m.daysRemaining = 7
       /\ sent[n].m.preamble = "WARNING"
       /\ cur.adjustedTotalCarried > cur.carryingCapacity
       /\ sent[n].m.overCapacityText

\* C23: main exits with a failure status only when loadConfig fails: it has
\* then begun no entity, read and written no sheet and sent no notification,
\* and no later failure leads to that exit.
C23_OnlyFatal ==
    /\ [](pc = "exit1" => (processed = <<>> /\ writes = <<>> /\ sent = <<>>))
    /\ [][pc' = "exit1" =>
            (pc = "start" /\ UNCHANGED <<sheet, processed, writes, sent>>)]_vars

\* loadConfig failed for a run that had two entities to process
C23_Witness ==
    /\ pc = "exit1"
    /\ Len(config) = 2
    /\ processed = <<>> /\ writes = <<>> /\ sent = <<>>

\* C24: in one run at most one sheet update is issued for an entity, it is
\* for the supplies cell of the entity's own sheet, and no step changes any
\* other cell (consumption, carried, capacity, resting, optional metrics) of
\* any sheet, nor the supplies cell of another entity.
C24_OneWrite ==
    /\ [](\A k \in DOMAIN config :
             /\ Cardinality(WritesOf(k)) <= 1
             /\ \A n \in WritesOf(k) :
                   /\ writes[n].cell = "supplies"
                   /\ writes[n].sheetId = config[k].sheetId)
    /\ [][\A id \in DOMAIN sheet :
             /\ \A c \in {"consumption", "carried", "capacity", "resting", "optional"} :
                   sheet'[id][c] = sheet[id][c]
             /\ sheet'[id].supplies # sheet[id].supplies =>
                   (id = config[i].sheetId /\ Len(writes') = Len(writes) + 1)]_vars

\* two entities, each with its one update done: both supplies cells hold
\* the written values
C24_Witness ==
    /\ Len(config) = 2 /\ i = 2
    /\ \A k \in {1, 2} :
          /\ Cardinality(WritesOf(k)) = 1
          /\ \A n \in WritesOf(k) :
                writes[n].ok /\ sheet[config[k].sheetId].supplies = Num(writes[n].value)

\* what the logs of the entity main is at show of the order of its update
\* and its notification
WriteThenNotify ==
    /\ \A n \in StatusOf(i) :
          (~cur.suppliesWereZero /\ ~cur.isResting) =>
             \E w \in WritesOf(i) : writes[w].ok
    /\ (\E w \in WritesOf(i) : ~writes[w].ok) =>
          (StatusOf(i) = {} /\ (pc = "sleep" => ErrorsOf(i) # {}))
    /\ (\E n \in StatusOf(i) : ~sent[n].ok) =>
          /\ Cardinality(WritesOf(i)) <= 1
          /\ \A w \in WritesOf(i) :
                /\ writes[w].ok
                /\ sheet[config[i].sheetId].supplies = Num(writes[w].value)
          /\ (pc = "sleep" => ErrorsOf(i) # {})

\* C25: within the pipeline of an entity the sheet update comes before the
\* status notification: an update is issued only while no status has been
\* sent, and a status of an entity that is to be updated follows a successful
\* update; after a failed update no SupplyStatus or ZeroSupplies message is
\* sent and an error report is attempted; when the notification fails after
\* a successful update the sheet keeps the new value, no second update is
\* issued and an error report is attempted.
C25_WriteBeforeNotify ==
    /\ [][Len(writes') > Len(writes) => StatusOf(i) = {}]_vars
    /\ []WriteThenNotify

\* the update to the new value succeeded, the status notification failed:
\* the sheet holds the new value and an error report was attempted
C25_Witness ==
    \E w \in WritesOf(i), n \in StatusOf(i) :
       /\ pc = "sleep"
       /\ writes[w].ok /\ ~sent[n].ok
       /\ cur.newSupplyValue < cur.currentSuppliesFloat
       /\ sheet[config[i].sheetId].supplies = Num(cur.newSupplyValue)
       /\ Cardinality(WritesOf(i)) = 1
       /\ ErrorsOf(i) # {}

ZeroAlerts(preamble) ==
    {n \in DOMAIN sent :
        sent[n].m.kind = "ZeroSupplies" /\ sent[n].m.preamble = preamble}

\* what the logs of successive invocations show: the n-th notification is
\* that of the n-th invocation
DaysLog ==
    /\ \A n \in DOMAIN writes : writes[n].ok /\ writes[n].value >= 0
    /\ \A n \in DOMAIN writes : n > 1 => writes[n].value < writes[n - 1].value
    /\ Cardinality(ZeroAlerts("reached ZERO today")) <= 1
    /\ \A n \in ZeroAlerts("reached ZERO today") :
          /\ Len(writes) = n
          /\ writes[n].value = 0
    /\ \A n \in DOMAIN sent :
          /\ sent[n].m.kind = "SupplyStatus" =>
                (n \in DOMAIN writes /\ writes[n].value > 0
                 /\ sent[n].m.currentSupplies = writes[n].value)
          /\ \A k \in DOMAIN sent :
                (k > n /\ sent[n].m.kind = "ZeroSupplies") =>
                   (k \in ZeroAlerts("STILL at ZERO") /\ k > Len(writes))
    /\ (pc = "done" /\ Len(processed) = MaxDays) =>
          /\ Len(sent) = MaxDays
          /\ Cardinality(ZeroAlerts("reached ZERO today")) = 1
          /\ ZeroAlerts("STILL at ZERO") # {}

\* C26: over successive invocations on one entity, with the written value
\* persisted, a constant daily consumption above 0, supplies above 0 at
\* first and no resting day: every write lowers the stored supplies and
\* leaves them at 0 or more, the stored supplies reach 0 after finitely many
\* invocations, the "reached ZERO today" alert is sent in exactly one
\* invocation, the one that writes 0, and every later invocation sends the
\* "STILL at ZERO" alert and writes nothing.
C26_Depletion ==
    /\ [][Len(writes') > Len(writes) =>
            /\ sheet'[1].supplies.v < parseNumericValue(sheet[1].supplies).v
            /\ sheet'[1].supplies.v >= 0]_vars
    /\ []DaysLog
    /\ <>(sheet[1].supplies = Num(0))
    /\ <>(pc = "done" /\ Len(processed) = MaxDays)

\* the last invocation is over: the supplies went down over two writes or
\* more to 0, one alert said "reached ZERO today" and the later ones "STILL
\* at ZERO"
C26_Witness ==
    /\ pc = "done" /\ Len(processed) = MaxDays
    /\ Len(writes) >= 2
    /\ writes[Len(writes)].value = 0
    /\ sheet[1].supplies = Num(0)
    /\ ZeroAlerts("reached ZERO today") = {Len(writes)}
    /\ ZeroAlerts("STILL at ZERO") = (Len(writes) + 1)..MaxDays

====
